---- MODULE Spec2Model ----
(***************************************************************************)
(* TurnkeyRpcProxy (src/src/index.ts): an HTTP listener that parses a      *)
(* JSON-RPC request, routes the signing methods to the Turnkey signer and  *)
(* forwards every other method to the upstream node.                       *)
(*                                                                         *)
(* JavaScript values are records [t, s, items]: t is the type tag, s the   *)
(* text of a scalar (or the key of a property), items the elements of an   *)
(* array or the properties of an object, in insertion order.  A text (an   *)
(* HTTP body) is a sequence of tokens, each token a value: a punctuation   *)
(* mark, a property of the top-level object, an element, or a scalar.      *)
(***************************************************************************)
EXTENDS Integers, Sequences, FiniteSets, TLC

VARIABLES config, client, conn

vars == <<config, client, conn>>

\* Number of HTTP connections the listener may have in flight.
MaxConns == 2

Conns == 1..MaxConns

----------------------------------------------------------------------------
(* JavaScript values *)

V(t, s, items) == [t |-> t, s |-> s, items |-> items]

Undefined == V("undefined", "", <<>>)

Null == V("null", "", <<>>)

Num(s) == V("num", s, <<>>)

Str(s) == V("str", s, <<>>)

Arr(items) == V("arr", "", items)

Prop(k, v) == V("prop", k, <<v>>)

Obj(props) == V("obj", "", props)

Punct(s) == V("punct", s, <<>>)

\* new Error(message): a TypeError, a SyntaxError, a rejection of the signer.
Error(message) == V("Error", message, <<>>)

HasKey(o, k) == o.t = "obj" /\ \E i \in 1..Len(o.items) : o.items[i].s = k

\* o[k], o.k and the destructuring { k } = o, for an o that is not null:
\* a missing property, and any property of a number or an array, is undefined.
Get(o, k) ==
  IF HasKey(o, k)
  THEN o.items[CHOOSE i \in 1..Len(o.items) : o.items[i].s = k].items[1]
  ELSE Undefined

\* Reading a property of null or undefined throws a TypeError.
Destructurable(v) == v.t \notin {"null", "undefined"}

\* params[i] for a params that is not null or undefined.
Index(params, i) ==
  IF params.t = "arr" /\ i + 1 <= Len(params.items)
  THEN params.items[i + 1]
  ELSE Undefined

\* String(v)
String(v) ==
  CASE v.t = "str" -> v.s
    [] v.t = "num" -> v.s
    [] v.t = "null" -> "null"
    [] v.t = "undefined" -> "undefined"
    [] v.t = "arr" /\ v.items = <<>> -> ""
    [] v.t = "obj" -> "[object Object]"

----------------------------------------------------------------------------
(* JSON.stringify and JSON.parse *)

\* JSON.stringify(v): a property whose value is undefined is left out, an
\* undefined element of an array is written as null.
JSONstringify(v) ==
  CASE v.t = "obj" ->
         <<Punct("{")>>
           \o SelectSeq(v.items, LAMBDA p : p.items[1].t # "undefined")
           \o <<Punct("}")>>
    [] v.t = "arr" ->
         <<Punct("[")>>
           \o [i \in 1..Len(v.items) |->
                 IF v.items[i].t = "undefined" THEN Null ELSE v.items[i]]
           \o <<Punct("]")>>
    [] OTHER -> <<v>>

IsScalar(tok) == tok.t \in {"null", "num", "str"}

IsElement(tok) == tok.t \in {"null", "num", "str", "arr", "obj"}

\* The properties of a parsed object: a repeated key keeps the place of its
\* first occurrence and the value of its last.
Dedupe(props) ==
  LET n == Len(props)
      first(i) == \A j \in 1..(i - 1) : props[j].s # props[i].s
      last(k) == CHOOSE i \in 1..n :
                   props[i].s = k /\ \A j \in (i + 1)..n : props[j].s # k
      idx == SelectSeq([i \in 1..n |-> i], first)
  IN [i \in 1..Len(idx) |-> props[last(props[idx[i]].s)]]

\* JSON.parse(text): [ok |-> TRUE, value |-> v], or ok = FALSE for a
\* SyntaxError.
JSONparse(text) ==
  LET n == Len(text)
      inner == SubSeq(text, 2, n - 1)
  IN CASE n = 1 /\ IsScalar(text[1]) -> [ok |-> TRUE, value |-> text[1]]
       [] n >= 2 /\ text[1] = Punct("[") /\ text[n] = Punct("]")
            /\ \A i \in 2..(n - 1) : IsElement(text[i]) ->
            [ok |-> TRUE, value |-> Arr(inner)]
       [] n >= 2 /\ text[1] = Punct("{") /\ text[n] = Punct("}")
            /\ \A i \in 2..(n - 1) : text[i].t = "prop" ->
            [ok |-> TRUE, value |-> Obj(Dedupe(inner))]
       [] OTHER -> [ok |-> FALSE, value |-> Undefined]

\* The JSON text a string value holds (the typed-data payload of params[1]).
TypedDataJson == "{\"domain\":\"D\",\"types\":\"T\",\"message\":\"M\"}"

Tokens(s) ==
  CASE s = TypedDataJson ->
         <<Punct("{"), Prop("domain", Str("D")), Prop("types", Str("T")),
           Prop("message", Str("M")), Punct("}")>>
    [] s = "{}" -> <<Punct("{"), Punct("}")>>
    [] s = "null" -> <<Null>>
    [] s = "5" -> <<Num("5")>>
    [] OTHER -> <<Punct(s)>>

----------------------------------------------------------------------------
(* The request dispatcher: handleRequest and forwardToUpstream *)

\* What handleRequest does up to its first await: a remote call it issues,
\* or an exception thrown inside its try block.
Call(target, op, args) ==
  [kind |-> "call", target |-> target, op |-> op, args |-> args,
   error |-> Undefined]

Throw(error) ==
  [kind |-> "throw", target |-> "", op |-> "", args |-> <<>>, error |-> error]

TypeError == Error("undefined is not an object")

SyntaxError == Error("JSON Parse error")

\* fetch(upstreamRpcUrl, { method: 'POST', body: JSON.stringify(request) })
forwardToUpstream(request) ==
  Call("upstream", "fetch", <<V("text", "", JSONstringify(request))>>)

\* case 'eth_signTypedData', '_v3', '_v4':
\*   const { domain, types, message } = JSON.parse(params[1]);
signTypedDataCase(params) ==
  IF ~Destructurable(params) THEN Throw(TypeError)
  ELSE LET parsed == JSONparse(Tokens(String(Index(params, 1))))
       IN IF ~parsed.ok THEN Throw(SyntaxError)
          ELSE IF ~Destructurable(parsed.value) THEN Throw(TypeError)
          ELSE Call("signer", "signTypedData",
                    <<Get(parsed.value, "domain"), Get(parsed.value, "types"),
                      Get(parsed.value, "message")>>)

\* A case of the switch that passes params[0] to the signer.
firstParamCase(op, params) ==
  IF ~Destructurable(params) THEN Throw(TypeError)
  ELSE Call("signer", op, <<Index(params, 0)>>)

\* The switch without its case 'eth_sign': eth_sign falls to the default.
handleRequestNoEthSign(request) ==
  LET method == Get(request, "method")
      params == Get(request, "params")
  IN CASE method = Str("eth_accounts") -> Call("signer", "getAddress", <<>>)
       [] method = Str("eth_sendTransaction") ->
            firstParamCase("sendTransaction", params)
       [] method = Str("eth_signTransaction") ->
            firstParamCase("signTransaction", params)
       [] method = Str("personal_sign") ->
            firstParamCase("signMessage", params)
       [] method \in {Str("eth_signTypedData"), Str("eth_signTypedData_v3"),
                      Str("eth_signTypedData_v4")} ->
            signTypedDataCase(params)
       [] OTHER -> forwardToUpstream(request)

\* The switch of handleRequest, for a request that could be destructured.
handleRequest(request) ==
  LET method == Get(request, "method")
      params == Get(request, "params")
  IN CASE method = Str("eth_accounts") -> Call("signer", "getAddress", <<>>)
       [] method = Str("eth_sendTransaction") ->
            firstParamCase("sendTransaction", params)
       [] method = Str("eth_signTransaction") ->
            firstParamCase("signTransaction", params)
       [] method \in {Str("eth_sign"), Str("personal_sign")} ->
            firstParamCase("signMessage", params)
       [] method \in {Str("eth_signTypedData"), Str("eth_signTypedData_v3"),
                      Str("eth_signTypedData_v4")} ->
            signTypedDataCase(params)
       [] OTHER -> forwardToUpstream(request)

\* The value the switch assigns to result once the signer has answered.
switchResult(method, value) ==
  CASE method = Str("eth_accounts") -> Arr(<<value>>)
    [] method = Str("eth_sendTransaction") -> Get(value, "hash")
    [] OTHER -> value

\* A success envelope that also carries error: null.
successEnvelopeWithError(result, id) ==
  Obj(<<Prop("jsonrpc", Str("2.0")), Prop("result", result),
        Prop("error", Null), Prop("id", id)>>)

\* return { jsonrpc: '2.0', result, id };
successEnvelope(result, id) ==
  Obj(<<Prop("jsonrpc", Str("2.0")), Prop("result", result), Prop("id", id)>>)

\* data: error instanceof Error ? error.message : String(error)
errorData(error) ==
  IF error.t = "Error" THEN Str(error.s) ELSE Str(String(error))

\* An internal error that carries id: null, as the parse error does.
internalErrorNullId(error, id) ==
  Obj(<<Prop("jsonrpc", Str("2.0")),
        Prop("error", Obj(<<Prop("code", Num("-32603")),
                            Prop("message", Str("Internal error")),
                            Prop("data", errorData(error))>>)),
        Prop("id", Null)>>)

\* The envelope the catch block of handleRequest returns.
internalError(error, id) ==
  Obj(<<Prop("jsonrpc", Str("2.0")),
        Prop("error", Obj(<<Prop("code", Num("-32603")),
                            Prop("message", Str("Internal error")),
                            Prop("data", errorData(error))>>)),
        Prop("id", id)>>)

\* The envelope the listener writes when its try block throws.
parseErrorEnvelope ==
  Obj(<<Prop("jsonrpc", Str("2.0")),
        Prop("error", Obj(<<Prop("code", Num("-32700")),
                            Prop("message", Str("Parse error"))>>)),
        Prop("id", Null)>>)

----------------------------------------------------------------------------
(* The HTTP listener: start *)

CorsHeaders ==
  {<<"Access-Control-Allow-Origin", "*">>,
   <<"Access-Control-Allow-Methods", "POST, OPTIONS">>,
   <<"Access-Control-Allow-Headers", "Content-Type">>}

ContentTypeJson == {<<"Content-Type", "application/json">>}

\* A connection before its request arrives.
IdleConn ==
  [pc |-> "idle", headers |-> {}, body |-> <<>>, received |-> 0,
   request |-> <<>>, calls |-> <<>>, outcome |-> <<>>, returned |-> <<>>,
   responses |-> <<>>]

\* res.writeHead(status, headers); res.end(text)
respond(cn, status, headers, text) ==
  [cn EXCEPT !.pc = "closed",
             !.responses = Append(@, [status |-> status,
                                      headers |-> cn.headers \cup headers,
                                      body |-> text])]

\* handleRequest returns envelope; the listener writes it with status 200.
returnEnvelope(cn, envelope) ==
  respond([cn EXCEPT !.returned = Append(@, envelope)], 200, ContentTypeJson,
          JSONstringify(envelope))

Outcome(kind, value) == [kind |-> kind, value |-> value]

\* A gate that refuses GET only: every other method has its body read.
methodGateGetOnly(enableCors, m) ==
  IF enableCors /\ m = "OPTIONS" THEN "preflight"
  ELSE IF m = "GET" THEN "refuse"
  ELSE "read"

\* What the createServer callback does with a request of HTTP method m:
\* answer the preflight, refuse the method, or read the body.
methodGate(enableCors, m) ==
  IF enableCors /\ m = "OPTIONS" THEN "preflight"
  ELSE IF m # "POST" THEN "refuse"
  ELSE "read"

createServerCallback(cn, enableCors, m) ==
  LET cn1 == [cn EXCEPT !.headers = IF enableCors THEN CorsHeaders ELSE {}]
      gate == methodGate(enableCors, m)
  IN CASE gate = "preflight" -> respond(cn1, 200, {}, <<>>)
       [] gate = "refuse" ->
            respond(cn1, 405, ContentTypeJson,
                    JSONstringify(Obj(<<Prop("error",
                                            Str("Method not allowed"))>>)))
       [] OTHER -> [cn1 EXCEPT !.pc = "reading"]

\* A body kept in one variable of the server instead of one per request:
\* a chunk is appended to the body of every request being read.
onDataShared(cs, c, chunk) ==
  [k \in DOMAIN cs |->
     IF k = c
     THEN [cs[k] EXCEPT !.body = Append(@, chunk), !.received = @ + 1]
     ELSE IF cs[k].pc = "reading"
     THEN [cs[k] EXCEPT !.body = Append(@, chunk)]
     ELSE cs[k]]

\* req.on('data', chunk => { body += chunk.toString(); })
onData(cs, c, chunk) ==
  [cs EXCEPT ![c].body = Append(@, chunk), ![c].received = @ + 1]

\* A handleRequest without its try/catch: the error reaches the listener,
\* which answers 400 with the parse-error envelope.
catchMissing(cn, kind, error) ==
  respond([cn EXCEPT !.outcome = Append(@, Outcome(kind, error))], 400,
          ContentTypeJson, JSONstringify(parseErrorEnvelope))

\* The catch block of handleRequest, entered with error.
catchInHandleRequest(cn, kind, error) ==
  returnEnvelope([cn EXCEPT !.outcome = Append(@, Outcome(kind, error))],
                 internalError(error, Get(cn.request[1], "id")))

\* req.on('end'): parse the body and dispatch the request, up to the first
\* await of handleRequest.
onEnd(cn) ==
  LET parsed == JSONparse(cn.body)
      request == parsed.value
      cn1 == [cn EXCEPT !.request = <<request>>]
      d == handleRequest(request)
  IN IF ~parsed.ok
     THEN respond(cn, 400, ContentTypeJson, JSONstringify(parseErrorEnvelope))
     ELSE IF ~Destructurable(request)
     THEN respond([cn1 EXCEPT !.outcome = Append(@, Outcome("escaped",
                                                           TypeError))],
                  400, ContentTypeJson, JSONstringify(parseErrorEnvelope))
     ELSE IF d.kind = "throw"
     THEN catchInHandleRequest(cn1, "threw", d.error)
     ELSE [cn1 EXCEPT !.calls = Append(@, [target |-> d.target, op |-> d.op,
                                           args |-> d.args]),
                      !.pc = IF d.target = "signer" THEN "awaitSigner"
                             ELSE "awaitFetch"]

\* The signer's promise resolves with value.
onSignerResolve(cn, value) ==
  returnEnvelope(
    [cn EXCEPT !.outcome = Append(@, Outcome("resolved", value))],
    successEnvelope(switchResult(Get(cn.request[1], "method"), value),
                    Get(cn.request[1], "id")))

\* A rejected call that is issued once more before the error is returned.
onRejectRetry(cn, error) ==
  IF Len(cn.calls) = 1
  THEN [cn EXCEPT !.calls = Append(@, cn.calls[1]),
                  !.pc = IF cn.calls[1].target = "signer" THEN "awaitSigner"
                         ELSE "awaitFetch"]
  ELSE catchInHandleRequest(cn, "rejected", error)

\* A remote call rejects with error: the signer, fetch, or response.json().
onReject(cn, error) == catchInHandleRequest(cn, "rejected", error)

\* An answer that is rewrapped: its result under the request's id.
onJsonResolveRewrapped(cn, answer) ==
  returnEnvelope([cn EXCEPT !.outcome = Append(@, Outcome("resolved", answer))],
                 successEnvelope(Get(answer, "result"),
                                 Get(cn.request[1], "id")))

\* return await response.json(): the upstream's answer is returned as it is.
onJsonResolve(cn, answer) ==
  returnEnvelope([cn EXCEPT !.outcome = Append(@, Outcome("resolved", answer))],
                 answer)

----------------------------------------------------------------------------
(* The environment: the clients, the signer and the upstream node *)

HttpMethods == {"POST", "OPTIONS", "GET"}

Tx == Obj(<<Prop("to", Str("0xdead")), Prop("value", Str("0x1"))>>)

MethodValues ==
  {Str("eth_accounts"), Str("eth_sendTransaction"), Str("eth_signTransaction"),
   Str("eth_sign"), Str("personal_sign"), Str("eth_signTypedData"),
   Str("eth_signTypedData_v3"), Str("eth_signTypedData_v4"),
   Str("eth_getBalance"), Str("ETH_ACCOUNTS"), Str("Personal_Sign"),
   Num("5"), Undefined}

ParamsValues ==
  {Arr(<<>>), Arr(<<Tx>>), Arr(<<Str("0xabc"), Str(TypedDataJson)>>),
   Arr(<<Str("0xabc"), Str("{}")>>), Arr(<<Str("0xabc"), Str("null")>>),
   Arr(<<Str("0xabc"), Str("oops")>>), Arr(<<Str("0xabc"), Num("5")>>),
   Arr(<<Str("0xabc"), Tx>>), Null, Tx, Undefined}

IdValues == {Num("1"), Str("a"), Null, Undefined}

\* The body of a client that serialises { jsonrpc, method, params, id }.
RequestText(method, params, id) ==
  JSONstringify(Obj(<<Prop("jsonrpc", Str("2.0")), Prop("method", method),
                      Prop("params", params), Prop("id", id)>>))

\* Bodies that are JSON but no request object, and bodies that are not JSON.
OtherTexts ==
  {<<Null>>, <<Num("7")>>, <<Str("hi")>>, <<Punct("["), Punct("]")>>,
   <<Punct("["),
     Obj(<<Prop("jsonrpc", Str("2.0")), Prop("method", Str("eth_chainId")),
           Prop("id", Num("1"))>>),
     Punct("]")>>,
   <<Punct("{"), Prop("id", Num("1")), Prop("method", Str("eth_accounts")),
     Prop("id", Num("2")), Punct("}")>>,
   <<Punct("{"), Prop("id", Num("1")), Prop("method", Str("eth_chainId")),
     Prop("id", Num("2")), Punct("}")>>,
   <<>>, <<Punct("{")>>,
   <<Punct("{"), Prop("method", Str("eth_accounts"))>>,
   <<Punct("{"), Str("eth_accounts"), Punct("}")>>}

Texts ==
  {RequestText(m, p, i) : m \in MethodValues, p \in ParamsValues, i \in IdValues}
    \cup OtherTexts

\* The bodies of the requests that overlap: a signing method and a forwarded
\* method, with two ids.
OverlapTexts ==
  {JSONstringify(Obj(<<Prop("method", m), Prop("id", i)>>)) :
     m \in {Str("eth_accounts"), Str("eth_getBalance")},
     i \in {Num("1"), Num("2")}}

NoClient == [httpMethod |-> "", text |-> <<>>]

Clients == [httpMethod : HttpMethods, text : Texts]

OverlapClients == [httpMethod : {"POST"}, text : OverlapTexts]

\* What the signer's operation op may resolve with.
SignerResults(op) ==
  CASE op = "getAddress" -> {Str("0xA11CE")}
    [] op = "sendTransaction" ->
         {Obj(<<Prop("hash", Str("0xaa"))>>), Obj(<<Prop("hash", Str("0xbb"))>>)}
    [] OTHER -> {Str("0xaa"), Str("0xbb")}

\* What a remote call may reject with: an Error, or a value that is none.
SignerErrors == {Error("policy denied"), Str("rejected"), Undefined}

TransportErrors == {Error("fetch failed")}

\* The JSON values a JSON-RPC 2.0 node, or a gateway in front of it, may
\* answer the request with.  A request object with a method and an id: a
\* result or an error with that id, or a gateway's error with a null id.  A
\* batch (a non-empty array): the array of its answers.  Anything else: an
\* Invalid Request error with a null id.
UpstreamAnswers(request) ==
  LET resultEnvelope(i) ==
        Obj(<<Prop("jsonrpc", Str("2.0")), Prop("id", i),
              Prop("result", Str("0x10"))>>)
      errorEnvelope(code, message, i) ==
        Obj(<<Prop("jsonrpc", Str("2.0")), Prop("id", i),
              Prop("error", Obj(<<Prop("code", Num(code)),
                                  Prop("message", Str(message))>>))>>)
  IN CASE request.t = "obj" /\ Get(request, "method").t = "str"
            /\ HasKey(request, "id") ->
            {resultEnvelope(Get(request, "id")),
             errorEnvelope("-32000", "execution reverted", Get(request, "id")),
             errorEnvelope("-32005", "rate limit exceeded", Null)}
       [] request.t = "arr" /\ request.items # <<>> ->
            {Arr([i \in 1..Len(request.items) |->
                    resultEnvelope(Get(request.items[i], "id"))])}
       [] OTHER -> {errorEnvelope("-32600", "Invalid Request", Null)}

----------------------------------------------------------------------------
(* The state machine *)

TypeOK ==
  /\ config \in [enableCors : BOOLEAN]
  /\ DOMAIN client = Conns
  /\ DOMAIN conn = Conns
  /\ \A c \in Conns :
       conn[c].pc \in {"idle", "reading", "awaitSigner", "awaitFetch",
                       "awaitJson", "closed"}

\* One request, of any HTTP method and with any body, on connection 1.
Init ==
  /\ config \in [enableCors : BOOLEAN]
  /\ client \in {[c \in Conns |-> IF c = 1 THEN cl ELSE NoClient] :
                   cl \in Clients}
  /\ conn = [c \in Conns |-> IdleConn]

\* A POST on every connection, all in flight together.
InitOverlap ==
  /\ config = [enableCors |-> FALSE]
  /\ client \in [Conns -> OverlapClients]
  /\ conn = [c \in Conns |-> IdleConn]

\* The createServer callback runs for the request of connection c.
Accept(c) ==
  /\ conn[c].pc = "idle"
  /\ client[c] # NoClient
  /\ conn' = [conn EXCEPT ![c] = createServerCallback(@, config.enableCors,
                                                      client[c].httpMethod)]
  /\ UNCHANGED <<config, client>>

\* The next chunk of the body of connection c arrives.
OnData(c) ==
  /\ conn[c].pc = "reading"
  /\ conn[c].received < Len(client[c].text)
  /\ conn' = onData(conn, c, client[c].text[conn[c].received + 1])
  /\ UNCHANGED <<config, client>>

\* The body of connection c is complete.
OnEnd(c) ==
  /\ conn[c].pc = "reading"
  /\ conn[c].received = Len(client[c].text)
  /\ conn' = [conn EXCEPT ![c] = onEnd(@)]
  /\ UNCHANGED <<config, client>>

SignerResolve(c) ==
  /\ conn[c].pc = "awaitSigner"
  /\ \E value \in SignerResults(conn[c].calls[1].op) :
       conn' = [conn EXCEPT ![c] = onSignerResolve(@, value)]
  /\ UNCHANGED <<config, client>>

SignerReject(c) ==
  /\ conn[c].pc = "awaitSigner"
  /\ \E error \in SignerErrors :
       conn' = [conn EXCEPT ![c] = onReject(@, error)]
  /\ UNCHANGED <<config, client>>

\* fetch resolves with the upstream's HTTP response.
FetchResolve(c) ==
  /\ conn[c].pc = "awaitFetch"
  /\ conn' = [conn EXCEPT ![c].pc = "awaitJson"]
  /\ UNCHANGED <<config, client>>

\* fetch rejects: a transport error.
FetchReject(c) ==
  /\ conn[c].pc = "awaitFetch"
  /\ \E error \in TransportErrors :
       conn' = [conn EXCEPT ![c] = onReject(@, error)]
  /\ UNCHANGED <<config, client>>

\* response.json() resolves with the upstream's answer.
JsonResolve(c) ==
  /\ conn[c].pc = "awaitJson"
  /\ \E answer \in UpstreamAnswers(conn[c].request[1]) :
       conn' = [conn EXCEPT ![c] = onJsonResolve(@, answer)]
  /\ UNCHANGED <<config, client>>

\* response.json() rejects: the upstream's body is not JSON.
JsonReject(c) ==
  /\ conn[c].pc = "awaitJson"
  /\ conn' = [conn EXCEPT ![c] = onReject(@, SyntaxError)]
  /\ UNCHANGED <<config, client>>

\* A step of connection c.
ConnStep(c) ==
  \/ Accept(c)
  \/ OnData(c)
  \/ OnEnd(c)
  \/ SignerResolve(c)
  \/ SignerReject(c)
  \/ FetchResolve(c)
  \/ FetchReject(c)
  \/ JsonResolve(c)
  \/ JsonReject(c)

Next == \E c \in Conns : ConnStep(c)

Spec == Init /\ [][Next]_vars

SpecOverlap == InitOverlap /\ [][Next]_vars

----------------------------------------------------------------------------
(* Properties *)

\* The routing table of the specification: method name -> signer operation.
SigningOperation ==
  [eth_accounts |-> "getAddress",
   eth_sendTransaction |-> "sendTransaction",
   eth_signTransaction |-> "signTransaction",
   eth_sign |-> "signMessage",
   personal_sign |-> "signMessage",
   eth_signTypedData |-> "signTypedData",
   eth_signTypedData_v3 |-> "signTypedData",
   eth_signTypedData_v4 |-> "signTypedData"]

IsIntercepted(request) ==
  /\ Get(request, "method").t = "str"
  /\ Get(request, "method").s \in DOMAIN SigningOperation

\* handleRequest has entered its try block for the request of connection c.
Dispatched(c) ==
  conn[c].request # <<>> /\ Destructurable(conn[c].request[1])

\* The POST of connection c has been answered.
Answered(c) == client[c].httpMethod = "POST" /\ conn[c].pc = "closed"

\* The JSON value the client of connection c reads from the response body.
Wire(c) == JSONparse(conn[c].responses[1].body).value

\* The upstream has answered the forwarded request of connection c.
ForwardAnswered(c) ==
  /\ Answered(c)
  /\ Dispatched(c)
  /\ ~IsIntercepted(conn[c].request[1])
  /\ conn[c].outcome # <<>>
  /\ conn[c].outcome[1].kind = "resolved"

\* A remote call of connection c failed, or its handler threw.
Failed(c) ==
  /\ Answered(c)
  /\ conn[c].outcome # <<>>
  /\ conn[c].outcome[1].kind \in {"rejected", "threw"}

\* code -32603, message "Internal error", data the error's message (an Error)
\* or its string form (any other thrown value).
IsInternalError(w, error) ==
  /\ Get(w, "error") =
       Obj(<<Prop("code", Num("-32603")), Prop("message", Str("Internal error")),
             Prop("data", Str(IF error.t = "Error" THEN error.s
                              ELSE String(error)))>>)
  /\ ~HasKey(w, "result")

\* The response carries the id of the request: the same value, and no id at
\* all when the request has none.
SameId(w, request) ==
  /\ Get(w, "id") = Get(request, "id")
  /\ HasKey(w, "id") <=> HasKey(request, "id")

(* C1: a request whose method is none of the eight intercepted names is sent
   to the upstream as it was parsed, in a single call, and the envelope the
   upstream answers is what handleRequest returns and what the listener
   writes, with no field added, removed or rewritten. *)
PassThroughIdentity ==
  \A c \in Conns :
    (Dispatched(c) /\ ~IsIntercepted(conn[c].request[1])) =>
      /\ Len(conn[c].calls) = 1
      /\ conn[c].calls[1].target = "upstream"
      /\ JSONparse(conn[c].calls[1].args[1].items)
           = [ok |-> TRUE, value |-> conn[c].request[1]]
      /\ ForwardAnswered(c) =>
           /\ conn[c].returned = <<conn[c].outcome[1].value>>
           /\ conn[c].responses[1].status = 200
           /\ conn[c].responses[1].body
                = JSONstringify(conn[c].outcome[1].value)
           /\ Wire(c) = conn[c].outcome[1].value

PassThroughWitness ==
  \E c \in Conns :
    /\ ForwardAnswered(c)
    /\ Get(conn[c].request[1], "method") = Str("eth_getBalance")
    /\ HasKey(Wire(c), "result")
    /\ Get(Wire(c), "id") = Num("1")

(* C2, as stated: for every outcome of a POST that handleRequest returns an
   envelope for (a signing result, an internal error, an upstream answer, a
   forwarding failure) the response id equals the request id and is not
   null; a body that does not parse is answered with a null id. *)
ResponseIdEchoed ==
  \A c \in Conns :
    Answered(c) =>
      LET p == JSONparse(conn[c].body)
      IN /\ conn[c].returned # <<>> =>
              /\ Get(Wire(c), "id") = Get(p.value, "id")
              /\ Get(Wire(c), "id") # Null
         /\ ~p.ok => Get(Wire(c), "id") = Null

(* C2, amended: an envelope handleRequest builds itself (a signing result or
   an internal error) carries the id of the request, absent when the request
   has none and null when the request's id is null; a forwarded request is
   answered with the id of the upstream's envelope; the 400 envelope carries
   a null id and is written when the body is not JSON or is the JSON null. *)
ResponseIdBuiltByProxy ==
  \A c \in Conns :
    Answered(c) =>
      CASE conn[c].responses[1].status = 400 ->
             /\ Get(Wire(c), "id") = Null
             /\ \/ ~JSONparse(conn[c].body).ok
                \/ conn[c].request = <<Null>>
        [] ForwardAnswered(c) ->
             Get(Wire(c), "id") = Get(conn[c].outcome[1].value, "id")
        [] OTHER -> SameId(Wire(c), conn[c].request[1])

ResponseIdWitness ==
  \E c \in Conns :
    /\ Answered(c)
    /\ Dispatched(c)
    /\ IsIntercepted(conn[c].request[1])
    /\ conn[c].outcome[1].kind = "resolved"
    /\ Get(Wire(c), "id") = Str("a")

(* C3, as stated: every response to a POST holds exactly one of result and
   error. *)
ExactlyOneOfResultError ==
  \A c \in Conns :
    Answered(c) => (HasKey(Wire(c), "result") # HasKey(Wire(c), "error"))

(* C3, amended: every envelope the proxy builds itself (a signing result, an
   internal error, the parse error) holds exactly one of result and error; a
   forwarded request is answered with the upstream's JSON value as it is,
   which holds whichever of the two the upstream put in it. *)
ExactlyOneBuiltByProxy ==
  \A c \in Conns :
    Answered(c) =>
      IF ForwardAnswered(c)
      THEN /\ HasKey(Wire(c), "result")
                <=> HasKey(conn[c].outcome[1].value, "result")
           /\ HasKey(Wire(c), "error")
                <=> HasKey(conn[c].outcome[1].value, "error")
      ELSE HasKey(Wire(c), "result") # HasKey(Wire(c), "error")

ExactlyOneWitness ==
  /\ \E c \in Conns :
       /\ Answered(c)
       /\ ~ForwardAnswered(c)
       /\ HasKey(Wire(c), "result")
       /\ conn[c].outcome[1].kind = "resolved"

(* C4: handleRequest never throws: whatever JSON value the listener passes
   to it, it returns an envelope. *)
HandleRequestNeverThrows ==
  \A c \in Conns :
    (conn[c].request # <<>> /\ conn[c].pc = "closed") =>
      /\ Len(conn[c].returned) = 1
      /\ \A i \in 1..Len(conn[c].outcome) : conn[c].outcome[i].kind # "escaped"

(* C5: a failed signer operation, a failed upstream call (transport error or
   a body that is not JSON) and a handler that throws on malformed params are
   answered with HTTP 200 and an envelope with error.code -32603,
   error.message "Internal error", error.data the stringified error, the id
   of the request and no result. *)
InternalErrorEnvelope ==
  \A c \in Conns :
    Failed(c) =>
      /\ conn[c].responses[1].status = 200
      /\ IsInternalError(Wire(c), conn[c].outcome[1].value)
      /\ SameId(Wire(c), conn[c].request[1])

InternalErrorWitness ==
  /\ \E c \in Conns :
       /\ Failed(c)
       /\ conn[c].outcome[1] = Outcome("rejected", Error("policy denied"))
       /\ Get(Wire(c), "id") = Num("1")

\* The arguments the routing table passes to the signer operation op.
TypedPayload(params) == JSONparse(Tokens(String(Index(params, 1))))

ExpectedArgs(op, params) ==
  CASE op = "getAddress" -> <<>>
    [] op = "signTypedData" ->
         <<Get(TypedPayload(params).value, "domain"),
           Get(TypedPayload(params).value, "types"),
           Get(TypedPayload(params).value, "message")>>
    [] OTHER -> <<Index(params, 0)>>

\* params cannot be indexed, or the typed-data payload is not JSON or is null.
Malformed(op, params) ==
  /\ op # "getAddress"
  /\ \/ ~Destructurable(params)
     \/ /\ op = "signTypedData"
        /\ \/ ~TypedPayload(params).ok
           \/ ~Destructurable(TypedPayload(params).value)

(* C6: the routing of handleRequest is the routing table, method names
   matched exactly and case-sensitively: an intercepted method calls its
   signer operation with the table's arguments and is never forwarded, and
   eth_accounts returns a one-element sequence, eth_sendTransaction the hash;
   every other method is forwarded and never reaches the signer. *)
RoutingTableHolds ==
  \A c \in Conns :
    Dispatched(c) =>
      LET request == conn[c].request[1]
          params == Get(request, "params")
          calls == conn[c].calls
      IN IF IsIntercepted(request)
         THEN LET op == SigningOperation[Get(request, "method").s]
              IN /\ Len(calls) <= 1
                 /\ calls = <<>> <=> Malformed(op, params)
                 /\ calls # <<>> =>
                      calls[1] = [target |-> "signer", op |-> op,
                                  args |-> ExpectedArgs(op, params)]
                 /\ (Answered(c) /\ calls # <<>>
                       /\ conn[c].outcome[1].kind = "resolved") =>
                      LET value == conn[c].outcome[1].value
                      IN Get(Wire(c), "result") =
                           CASE op = "getAddress" -> Arr(<<value>>)
                             [] op = "sendTransaction" -> Get(value, "hash")
                             [] OTHER -> value
         ELSE /\ Len(calls) = 1
              /\ calls[1].target = "upstream"
              /\ calls[1].op = "fetch"

RoutingWitness ==
  /\ \E c \in Conns :
       /\ Answered(c)
       /\ Dispatched(c)
       /\ Get(conn[c].request[1], "method") = Str("eth_signTypedData_v4")
       /\ conn[c].calls = <<[target |-> "signer", op |-> "signTypedData",
                             args |-> <<Str("D"), Str("T"), Str("M")>>]>>
       /\ conn[c].outcome[1].kind = "resolved"

(* C7: a POST is answered with HTTP 400 and the parse-error envelope when
   its body is not valid JSON and only then; every POST whose body is valid
   JSON is answered with HTTP 200; and in the 400 case no remote call has
   been made. *)
ParseErrorOnlyForInvalidJson ==
  \A c \in Conns :
    Answered(c) =>
      /\ conn[c].responses[1].status = 400 <=> ~JSONparse(conn[c].body).ok
      /\ conn[c].responses[1].status = 200 <=> JSONparse(conn[c].body).ok
      /\ conn[c].responses[1].status = 400 =>
           /\ Wire(c) = parseErrorEnvelope
           /\ conn[c].calls = <<>>

(* C8: a request that is neither POST nor OPTIONS is answered 405 with the
   body {"error": "Method not allowed"}; with CORS enabled an OPTIONS request
   is answered 200 with the three CORS headers and an empty body; in both
   cases the body is never read and nothing is dispatched, so only a POST
   reaches handleRequest. *)
HttpMethodGate ==
  \A c \in Conns :
    LET m == client[c].httpMethod
        refused == m \notin {"POST", "OPTIONS"}
        preflight == m = "OPTIONS" /\ config.enableCors
    IN /\ conn[c].request # <<>> => m = "POST"
       /\ conn[c].pc \notin {"idle", "closed"} => m = "POST"
       /\ ((refused \/ preflight) /\ conn[c].pc # "idle") =>
            /\ conn[c].pc = "closed"
            /\ conn[c].body = <<>>
            /\ conn[c].received = 0
            /\ conn[c].calls = <<>>
            /\ conn[c].returned = <<>>
            /\ Len(conn[c].responses) = 1
            /\ refused =>
                 /\ conn[c].responses[1].status = 405
                 /\ conn[c].responses[1].body
                      = <<Punct("{"), Prop("error", Str("Method not allowed")),
                          Punct("}")>>
            /\ preflight =>
                 /\ conn[c].responses[1].status = 200
                 /\ conn[c].responses[1].body = <<>>
                 /\ conn[c].responses[1].headers =
                      {<<"Access-Control-Allow-Origin", "*">>,
                       <<"Access-Control-Allow-Methods", "POST, OPTIONS">>,
                       <<"Access-Control-Allow-Headers", "Content-Type">>}

HttpMethodGateWitness ==
  /\ config.enableCors
  /\ \E c \in Conns :
       /\ client[c].httpMethod = "OPTIONS"
       /\ client[c].text # <<>>
       /\ conn[c].pc = "closed"

(* C9: no retry: a request makes at most one remote call in all, a signer
   operation or an upstream call; the step in which that call fails writes
   the error response and closes the request, and no call follows it. *)
NoRetry ==
  [][\A c \in Conns :
       /\ Len(conn'[c].calls) <= 1
       /\ conn[c].calls # <<>> => conn'[c].calls = conn[c].calls
       /\ conn[c].pc = "closed" => conn'[c] = conn[c]
       /\ (/\ Len(conn'[c].outcome) > Len(conn[c].outcome)
           /\ conn'[c].outcome[Len(conn'[c].outcome)].kind = "rejected") =>
            /\ conn'[c].pc = "closed"
            /\ Len(conn'[c].responses) = 1
            /\ HasKey(JSONparse(conn'[c].responses[1].body).value, "error")]_vars

NoRetryWitness ==
  /\ \E c \in Conns :
       /\ Answered(c)
       /\ conn[c].calls # <<>>
       /\ conn[c].calls[1].target = "upstream"
       /\ conn[c].outcome = <<Outcome("rejected", SyntaxError)>>

\* The envelope the request sent on a connection is owed, given the outcome o
\* of its own remote call.
OwedEnvelope(sent, o) ==
  CASE o.kind = "rejected" -> internalError(o.value, Get(sent, "id"))
    [] o.kind = "resolved" /\ IsIntercepted(sent) ->
         successEnvelope(switchResult(Get(sent, "method"), o.value),
                         Get(sent, "id"))
    [] OTHER -> o.value

(* C10: requests in flight together are independent: under every
   interleaving of chunk arrivals and of remote completions each connection
   gets exactly one response, built from the request its own client sent and
   from the outcome of its own remote call; and while one connection waits
   for a remote call, every other connection that is not yet answered can
   take its next step. *)
OverlapIndependent ==
  \A c \in Conns :
    /\ Len(conn[c].responses) <= 1
    /\ conn[c].pc = "closed" <=> Len(conn[c].responses) = 1
    /\ conn[c].pc = "closed" =>
         /\ Len(conn[c].outcome) = 1
         /\ conn[c].responses[1].status = 200
         /\ conn[c].responses[1].body =
              JSONstringify(OwedEnvelope(JSONparse(client[c].text).value,
                                         conn[c].outcome[1]))
    /\ conn[c].pc \in {"awaitSigner", "awaitFetch", "awaitJson"} =>
         \A d \in Conns \ {c} : conn[d].pc # "closed" => ENABLED ConnStep(d)

OverlapWitness ==
  /\ conn[1].pc = "awaitSigner"
  /\ conn[2].pc = "closed"
  /\ Get(JSONparse(conn[2].responses[1].body).value, "id") = Num("2")
  /\ Get(JSONparse(client[1].text).value, "id") = Num("1")
  /\ Len(conn[1].body) = Len(conn[2].body)

====
